---- MODULE Spec2Model ----
(***************************************************************************)
(* A model of the label, file-name and time-selection functions of         *)
(* aospy/io.py: _ens_label, _yr_label, _time_label, _month_indices,        *)
(* nc_name_gfdl and _get_time.  Each of them is pure: a call is one step   *)
(* from a state holding the drawn arguments (ret = Pending) to a state     *)
(* holding the call's outcome, a returned value or a raised exception.     *)
(* There is one specification per group of functions: SpecLabels,          *)
(* SpecIntervals, SpecNcName and SpecGetTime.                              *)
(*                                                                         *)
(* A Python value is a record [t, n, s, l]: t is its type ("none",        *)
(* "bool", "int", "str" or "list"), n the number of an int or bool (False  *)
(* is 0, True is 1), s the characters of a str and l the integers of a     *)
(* list or tuple; the fields a type does not use are 0 or <<>>.  Strings   *)
(* that are only compared or concatenated are TLA+ strings.                *)
(***************************************************************************)
EXTENDS Integers, Sequences, FiniteSets, TLC

VARIABLES op, args, ret, locals

vars == <<op, args, ret, locals>>

\* No local variable of the call is recorded.
NoLocals == <<>>

(***************************************************************************)
(* Outcomes of a call.                                                     *)
(***************************************************************************)
Pending == [kind |-> "pending"]
Return(v) == [kind |-> "return", val |-> v]
Raise(e) == [kind |-> "raise", exc |-> e]

(***************************************************************************)
(* Python values.                                                          *)
(***************************************************************************)
PyNone == [t |-> "none", n |-> 0, s |-> <<>>, l |-> <<>>]
PyBool(b) == [t |-> "bool", n |-> IF b THEN 1 ELSE 0, s |-> <<>>, l |-> <<>>]
PyInt(k) == [t |-> "int", n |-> k, s |-> <<>>, l |-> <<>>]
PyStr(cs) == [t |-> "str", n |-> 0, s |-> cs, l |-> <<>>]
PyList(xs) == [t |-> "list", n |-> 0, s |-> <<>>, l |-> xs]

\* The TLA+ string spelled by a sequence of characters.
RECURSIVE StrOf(_)
StrOf(cs) == IF cs = <<>> THEN "" ELSE cs[1] \o StrOf(Tail(cs))

\* Python's ==: a bool compares as the integer 0 or 1, values of unrelated
\* types are unequal.
IsNum(x) == x.t \in {"bool", "int"}
PyEq(a, b) ==
    IF IsNum(a) /\ IsNum(b) THEN a.n = b.n
    ELSE a = b

(***************************************************************************)
(* Number formatting: str(n) and '{:0Wd}'.format(n).                       *)
(***************************************************************************)
DigitChar(d) == <<"0", "1", "2", "3", "4", "5", "6", "7", "8", "9">>[d + 1]

RECURSIVE Digits(_)
Digits(n) == IF n < 10 THEN DigitChar(n)
             ELSE Digits(n \div 10) \o DigitChar(n % 10)

RECURSIVE Zeros(_)
Zeros(k) == IF k <= 0 THEN "" ELSE "0" \o Zeros(k - 1)

\* '{:0Wd}'.format(n): the sign, then zeros filling up to width w, then the
\* digits; a number wider than w is written in full.
ZeroPad(n, w) ==
    LET sign == IF n < 0 THEN "-" ELSE ""
        d == Digits(IF n < 0 THEN -n ELSE n)
    IN sign \o Zeros(w - Len(sign) - Len(d)) \o d

\* str(n)
PyStrOfInt(n) == ZeroPad(n, 0)

(***************************************************************************)
(* _ens_label(ens_mem)                                                     *)
(***************************************************************************)
\* `ens_mem in (None, False)` compares with ==, so the integer 0 is in it.
ens_label(ens_mem) ==
    IF PyEq(ens_mem, PyNone) \/ PyEq(ens_mem, PyBool(FALSE)) THEN Return("")
    ELSE IF PyEq(ens_mem, PyStr(<<"a", "v", "g">>)) THEN Return("ens_mean")
    ELSE IF ens_mem.t = "str" THEN Raise("TypeError")
    ELSE Return("mem" \o PyStrOfInt(ens_mem.n + 1))

(***************************************************************************)
(* _yr_label(yr_range)                                                     *)
(***************************************************************************)
yr_label(yr_range) ==
    IF yr_range.t = "none" THEN Raise("AssertionError")
    ELSE IF yr_range.l[1] = yr_range.l[2]
         THEN Return(ZeroPad(yr_range.l[1], 4))
    ELSE Return(ZeroPad(yr_range.l[1], 4) \o "-" \o ZeroPad(yr_range.l[2], 4))

(***************************************************************************)
(* The component labelers: arguments and calls.                            *)
(***************************************************************************)
MaxEnsMem == 11
MaxYrOffset == 3

EnsInputs ==
    {PyNone, PyBool(FALSE), PyBool(TRUE), PyStr(<<"a", "v", "g">>),
     PyStr(<<"m", "e", "a", "n">>)}
    \cup {PyInt(k) : k \in 0..MaxEnsMem}

YrLabelYears ==
    {b + k : b \in {0, 1979, 2008, 9997}, k \in 0..MaxYrOffset}

YrInputs ==
    {PyNone} \cup {PyList(<<a, b>>) : a \in YrLabelYears, b \in YrLabelYears}

InitLabels ==
    /\ \/ op = "_ens_label" /\ args \in EnsInputs
       \/ op = "_yr_label" /\ args \in YrInputs
    /\ ret = Pending
    /\ locals = NoLocals

Call_ens_label ==
    /\ op = "_ens_label"
    /\ ret = Pending
    /\ ret' = ens_label(args)
    /\ UNCHANGED <<op, args, locals>>

Call_yr_label ==
    /\ op = "_yr_label"
    /\ ret = Pending
    /\ ret' = yr_label(args)
    /\ UNCHANGED <<op, args, locals>>

NextLabels == Call_ens_label \/ Call_yr_label

SpecLabels == InitLabels /\ [][NextLabels]_vars

\* A year of at most four digits written with exactly four, zero-padded.
FourDigit(y) ==
    IF y < 10000
    THEN DigitChar(y \div 1000) \o DigitChar((y \div 100) % 10)
         \o DigitChar((y \div 10) % 10) \o DigitChar(y % 10)
    ELSE Digits(y)

\* C4: _ens_label returns '' for None and False, 'ens_mean' for 'avg', and
\* 'mem' followed by the decimal form of k+1 for every integer member
\* k >= 0, k = 0 included.
C4_EnsLabel ==
    (op = "_ens_label" /\ ret # Pending) =>
        /\ (args = PyNone \/ args = PyBool(FALSE)) => ret = Return("")
        /\ args = PyStr(<<"a", "v", "g">>) => ret = Return("ens_mean")
        /\ (args.t = "int" /\ args.n >= 0) =>
               ret = Return("mem" \o Digits(args.n + 1))

\* C5: _yr_label fails for every pair with end_year < start_year, returns
\* the single 4-digit year when start_year = end_year and
\* 'start-end' (4 digits each) when start_year < end_year.
C5_YrLabel ==
    (op = "_yr_label" /\ ret # Pending /\ args.t = "list") =>
        LET start == args.l[1]
            end == args.l[2]
        IN /\ end < start => ret.kind = "raise"
           /\ end = start => ret = Return(FourDigit(start))
           /\ start < end =>
                  ret = Return(FourDigit(start) \o "-" \o FourDigit(end))

(***************************************************************************)
(* _time_label(intvl, return_val)                                          *)
(***************************************************************************)
SetOfSeq(q) == {q[i] : i \in DOMAIN q}

\* range(lo, hi)
PyRange(lo, hi) == [i \in 1..(hi - lo) |-> lo + i - 1]

\* The dict `labels`, in the order it is written.
labels ==
    << [lbl |-> <<"j", "f", "m">>, vals |-> <<1, 2, 3>>],
       [lbl |-> <<"f", "m", "a">>, vals |-> <<2, 3, 4>>],
       [lbl |-> <<"m", "a", "m">>, vals |-> <<3, 4, 5>>],
       [lbl |-> <<"a", "m", "j">>, vals |-> <<4, 5, 6>>],
       [lbl |-> <<"m", "j", "j">>, vals |-> <<5, 6, 7>>],
       [lbl |-> <<"j", "j", "a">>, vals |-> <<6, 7, 8>>],
       [lbl |-> <<"j", "a", "s">>, vals |-> <<7, 8, 9>>],
       [lbl |-> <<"a", "s", "o">>, vals |-> <<8, 9, 10>>],
       [lbl |-> <<"s", "o", "n">>, vals |-> <<9, 10, 11>>],
       [lbl |-> <<"o", "n", "d">>, vals |-> <<10, 11, 12>>],
       [lbl |-> <<"n", "d", "j">>, vals |-> <<11, 12, 1>>],
       [lbl |-> <<"d", "j", "f">>, vals |-> <<1, 2, 12>>],
       [lbl |-> <<"j", "j", "a", "s">>, vals |-> <<6, 7, 8, 9>>],
       [lbl |-> <<"d", "j", "f", "m">>, vals |-> <<12, 1, 2, 3>>],
       [lbl |-> <<"a", "n", "n">>, vals |-> PyRange(1, 13)] >>

\* Variant: a month collection is compared as a tuple, not as a set.
time_label_matches_by_tuple_equality(intvl) ==
    {i \in DOMAIN labels :
        \/ intvl.t = "str" /\ intvl.s = labels[i].lbl
        \/ intvl.t = "list" /\ intvl.l = labels[i].vals}

\* The entries for which `intvl == lbl or set(intvl) == set(vals)` holds.
\* A str equals a code or not; its set of characters never equals a set of
\* integers.  A list never equals a str; its set of elements is compared.
time_label_matches(intvl) ==
    {i \in DOMAIN labels :
        \/ intvl.t = "str" /\ intvl.s = labels[i].lbl
        \/ intvl.t = "list" /\ SetOfSeq(intvl.l) = SetOfSeq(labels[i].vals)}

\* The outcomes of _time_label.  The loop takes the first matching entry in
\* the dict's iteration order, which the language of the code's day leaves
\* arbitrary: every matching entry is the first one in some order.  When no
\* entry matches, `label` is unbound at the return.  For an int outside
\* 1..12 the first iteration evaluates set(intvl), a TypeError.
time_label(intvl, return_val) ==
    LET result(label, value) ==
            IF return_val THEN Return([label |-> label, value |-> value])
            ELSE Return(label)
    IN IF intvl.t = "list" /\ Len(intvl.l) = 1
       THEN {result(ZeroPad(intvl.l[1], 2), intvl.l)}
       ELSE IF intvl.t = "int" /\ intvl.n \in 1..12
       THEN {result(ZeroPad(intvl.n, 2), <<intvl.n>>)}
       ELSE IF intvl.t = "int"
       THEN {Raise("TypeError")}
       ELSE IF time_label_matches(intvl) = {}
       THEN {Raise("UnboundLocalError")}
       ELSE {result(StrOf(labels[i].lbl), labels[i].vals) :
                i \in time_label_matches(intvl)}

(***************************************************************************)
(* _month_indices(months, iterable)                                        *)
(***************************************************************************)
UpperCase ==
    [c \in {"j", "f", "m", "a", "s", "o", "n", "d"} |->
        CASE c = "j" -> "J" [] c = "f" -> "F" [] c = "m" -> "M"
          [] c = "a" -> "A" [] c = "s" -> "S" [] c = "o" -> "O"
          [] c = "n" -> "N" [] c = "d" -> "D"]

\* str.lower()
Lower(cs) ==
    [i \in DOMAIN cs |->
        IF \E c \in DOMAIN UpperCase : UpperCase[c] = cs[i]
        THEN CHOOSE c \in DOMAIN UpperCase : UpperCase[c] = cs[i]
        ELSE cs[i]]

\* str.find(sub): the lowest zero-based index where sub occurs, else -1.
Find(hay, sub) ==
    LET at == {k \in 0..(Len(hay) - Len(sub)) :
                  SubSeq(hay, k + 1, k + Len(sub)) = sub}
    IN IF at = {} THEN -1 ELSE CHOOSE k \in at : \A j \in at : k <= j

first_letter ==
    <<"j", "f", "m", "a", "m", "j", "j", "a", "s", "o", "n", "d">>
    \o <<"j", "f", "m", "a", "m", "j", "j", "a", "s", "o", "n", "d">>

month_indices(months, iterable) ==
    IF months.t \notin {"int", "str"} THEN Raise("AssertionError")
    ELSE IF months.t = "int"
    THEN (IF iterable THEN Return(<<months.n>>) ELSE Return(months.n))
    ELSE IF Lower(months.s) = <<"a", "n", "n">>
    THEN Return(PyRange(1, 13))
    ELSE LET st_ind == Find(first_letter, Lower(months.s)) + 1
         IN Return(PyRange(st_ind, st_ind + Len(months.s)))

(***************************************************************************)
(* The interval functions: arguments and calls.                            *)
(***************************************************************************)
MaxMonthArg == 13
MaxListLen == 3
MaxSeasonLen == 4

Seqs(S, n) == UNION {[1..k -> S] : k \in 0..n}

\* The orderings of a tuple's elements.
Perms(t) == {q \in [1..Len(t) -> SetOfSeq(t)] : SetOfSeq(q) = SetOfSeq(t)}

Rotations(t) ==
    {[i \in 1..Len(t) |-> t[((i + k - 1) % Len(t)) + 1]] : k \in 0..(Len(t) - 1)}

RECURSIVE CaseVariants(_)
CaseVariants(cs) ==
    IF cs = <<>> THEN {<<>>}
    ELSE {<<c>> \o r : c \in {cs[1], UpperCase[cs[1]]},
                       r \in CaseVariants(Tail(cs))}

IntArgs == {PyInt(k) : k \in (-1)..MaxMonthArg}

ListArgs ==
    {PyList(q) : q \in Seqs(0..MaxMonthArg, MaxListLen)}
    \cup {PyList(q) : q \in UNION {Perms(labels[i].vals) :
                                     i \in {j \in DOMAIN labels :
                                              Len(labels[j].vals) <= 4}}}
    \cup {PyList(q) : q \in Rotations(PyRange(1, 13))}
    \cup {PyList(PyRange(1, 12)), PyList(PyRange(0, 13)),
          PyList(<<6, 7, 8, 9, 9>>), PyList(<<12, 1, 2, 3, 4>>)}

CodeStrArgs ==
    {PyStr(cs) : cs \in UNION {CaseVariants(labels[i].lbl) : i \in DOMAIN labels}}

OtherStrArgs ==
    {PyStr(<<>>), PyStr(<<"d", "j">>), PyStr(<<"j", "f", "m", "a">>),
     PyStr(<<"a", "n", "n", "u", "a", "l">>), PyStr(<<"s", "e", "a", "s">>)}

\* The strings of consecutive month initials, read cyclically.
CyclicSeasons ==
    {SubSeq(first_letter, st, st + n - 1) : st \in 1..12, n \in 1..MaxSeasonLen}

SeasonStrArgs ==
    {PyStr(cs) : cs \in CyclicSeasons}
    \cup {PyStr(cs) : cs \in CaseVariants(<<"a", "n", "n">>)
                            \cup CaseVariants(<<"d", "j", "f">>)
                            \cup CaseVariants(<<"j", "j", "a", "s">>)}

TimeLabelArgs ==
    [intvl : IntArgs \cup ListArgs \cup CodeStrArgs \cup OtherStrArgs,
     return_val : BOOLEAN]

MonthIndicesArgs ==
    [months : IntArgs \cup SeasonStrArgs \cup OtherStrArgs
              \cup {PyNone, PyList(<<1, 2, 3>>)},
     iterable : BOOLEAN]

InitIntervals ==
    /\ \/ op = "_time_label" /\ args \in TimeLabelArgs
       \/ op = "_month_indices" /\ args \in MonthIndicesArgs
    /\ ret = Pending
    /\ locals = NoLocals

Call_time_label ==
    /\ op = "_time_label"
    /\ ret = Pending
    /\ ret' \in time_label(args.intvl, args.return_val)
    /\ UNCHANGED <<op, args, locals>>

Call_month_indices ==
    /\ op = "_month_indices"
    /\ ret = Pending
    /\ ret' = month_indices(args.months, args.iterable)
    /\ UNCHANGED <<op, args, locals>>

NextIntervals == Call_time_label \/ Call_month_indices

SpecIntervals == InitIntervals /\ [][NextIntervals]_vars

\* A month index written with two digits, zero-padded.
TwoDigit(m) == DigitChar(m \div 10) \o DigitChar(m % 10)

\* What a call of _time_label that resolves to (label, months) returns.
Resolved(label, months) ==
    IF args.return_val THEN Return([label |-> label, value |-> months])
    ELSE Return(label)

\* C6: _time_label is total and single-valued on the legal vocabulary: a
\* month m in 1..12, as a scalar or a one-element list, gives the 2-digit m
\* and the months <<m>>; a season code gives that code and the table's month
\* tuple; a collection of months whose set is a code's month set, in any
\* order, gives that code, whatever the order the table is iterated in; and
\* 'ann' gives 'ann' and the months 1..12.
C6_TimeLabelTotal ==
    (op = "_time_label" /\ ret # Pending) =>
        LET intvl == args.intvl
        IN /\ (intvl.t = "int" /\ intvl.n \in 1..12) =>
                 ret = Resolved(TwoDigit(intvl.n), <<intvl.n>>)
           /\ (intvl.t = "list" /\ Len(intvl.l) = 1 /\ intvl.l[1] \in 1..12) =>
                 ret = Resolved(TwoDigit(intvl.l[1]), <<intvl.l[1]>>)
           /\ \A k \in DOMAIN labels :
                 (intvl.t = "str" /\ intvl.s = labels[k].lbl) =>
                     ret = Resolved(StrOf(labels[k].lbl), labels[k].vals)
           /\ \A k \in DOMAIN labels :
                 (intvl.t = "list"
                  /\ SetOfSeq(intvl.l) = SetOfSeq(labels[k].vals)) =>
                     ret = Resolved(StrOf(labels[k].lbl), labels[k].vals)
           /\ intvl = PyStr(<<"a", "n", "n">>) =>
                 ret = Resolved("ann", <<1, 2, 3, 4, 5, 6, 7, 8, 9, 10, 11, 12>>)

\* Witness of C6: the months of 'djf' given in another order than the
\* table's were resolved to 'djf'.
C6_Witness ==
    /\ op = "_time_label"
    /\ args.intvl = PyList(<<12, 2, 1>>)
    /\ args.return_val
    /\ ret = Return([label |-> "djf", value |-> <<1, 2, 12>>])

\* C7: _time_label is case-insensitive on a string: every upper/lower-case
\* variant of a season code resolves as the lower-case code does.
C7_TimeLabelCaseInsensitive ==
    (op = "_time_label" /\ ret # Pending /\ args.intvl.t = "str") =>
        \A k \in DOMAIN labels :
            Lower(args.intvl.s) = labels[k].lbl =>
                ret = Resolved(StrOf(labels[k].lbl), labels[k].vals)

\* The legal interval vocabulary.
InVocabulary(intvl) ==
    \/ intvl.t = "int" /\ intvl.n \in 1..12
    \/ intvl.t = "list" /\ Len(intvl.l) = 1 /\ intvl.l[1] \in 1..12
    \/ intvl.t = "str" /\ \E k \in DOMAIN labels : Lower(intvl.s) = labels[k].lbl
    \/ intvl.t = "list" /\ \E k \in DOMAIN labels :
                              SetOfSeq(intvl.l) = SetOfSeq(labels[k].vals)

\* C8: _time_label fails, and returns no label, for every interval outside
\* the vocabulary: an integer outside 1..12 as a scalar or as a one-element
\* list, a string that is no season code, a month collection whose set is no
\* code's month set.
C8_TimeLabelFailsOutsideVocabulary ==
    (op = "_time_label" /\ ret # Pending /\ ~InVocabulary(args.intvl)) =>
        ret.kind = "raise"

\* The initials of the twelve calendar months.
MonthInitial == SubSeq(first_letter, 1, 12)

IsCyclicSeason(cs) ==
    /\ cs # <<>>
    /\ \E st \in 1..12 :
          \A j \in DOMAIN cs : cs[j] = MonthInitial[((st + j - 2) % 12) + 1]

\* C10: _month_indices returns only month indices in 1..12: 1..12 for 'ann'
\* in any letter case, and for every non-empty string of consecutive month
\* initials of the cyclic sequence 'jfmamjjasond' (the seasons that wrap over
\* the year end included) one index per letter, each in 1..12 and the
\* calendar month of its letter.
C10_MonthIndicesInRange ==
    (op = "_month_indices" /\ ret # Pending /\ args.months.t = "str") =>
        LET months == Lower(args.months.s)
        IN /\ months = <<"a", "n", "n">> =>
                 ret = Return(<<1, 2, 3, 4, 5, 6, 7, 8, 9, 10, 11, 12>>)
           /\ IsCyclicSeason(months) =>
                 /\ ret.kind = "return"
                 /\ Len(ret.val) = Len(months)
                 /\ \A j \in DOMAIN months :
                       /\ ret.val[j] \in 1..12
                       /\ MonthInitial[ret.val[j]] = months[j]

(***************************************************************************)
(* nc_name_gfdl(name, domain, data_type, intvl_type, data_yr, intvl,       *)
(*              nc_start_yr, nc_dur)                                       *)
(***************************************************************************)
\* Variant: a remainder that takes the sign of the dividend.
extra_yrs_truncating(data_yr, nc_start_yr, nc_dur) ==
    IF data_yr >= nc_start_yr THEN (data_yr - nc_start_yr) % nc_dur
    ELSE -((nc_start_yr - data_yr) % nc_dur)

\* Python's % with a positive divisor: the result is in 0..nc_dur-1.
extra_yrs(data_yr, nc_start_yr, nc_dur) == (data_yr - nc_start_yr) % nc_dur

nc_yr(data_yr, nc_start_yr, nc_dur) ==
    data_yr - extra_yrs(data_yr, nc_start_yr, nc_dur)

\* `sub in s`
Contains(s, sub) == Find(s, sub) >= 0

Unbound == [bound |-> FALSE, v |-> ""]
Bound(x) == [bound |-> TRUE, v |-> x]

\* The ts / inst branch: gfdl_file, or Unbound when no test of the chain
\* holds.
ts_file(name, domain, intvl_type, yr, nc_dur) ==
    IF intvl_type = <<"a", "n", "n", "u", "a", "l">>
    THEN (IF nc_dur = 1
          THEN Bound(domain \o "." \o ZeroPad(yr, 4) \o "." \o name \o "." \o "nc")
          ELSE Bound(domain \o "." \o ZeroPad(yr, 4) \o "-"
                     \o ZeroPad(yr + nc_dur - 1, 4) \o "." \o name \o ".nc"))
    ELSE IF intvl_type = <<"m", "o", "n", "t", "h", "l", "y">>
    THEN Bound(domain \o "." \o ZeroPad(yr, 4) \o "01-"
               \o ZeroPad(yr + nc_dur - 1, 4) \o "12." \o name \o ".nc")
    ELSE IF intvl_type = <<"d", "a", "i", "l", "y">>
    THEN Bound(domain \o "." \o ZeroPad(yr, 4) \o "0101-"
               \o ZeroPad(yr + nc_dur - 1, 4) \o "1231." \o name \o ".nc")
    ELSE IF Contains(intvl_type, <<"h", "r">>)
    THEN Bound(domain \o "." \o ZeroPad(yr, 4) \o "010100-"
               \o ZeroPad(yr + nc_dur - 1, 4) \o "123123" \o "." \o name
               \o "." \o "nc")
    ELSE Unbound

\* Variant: the seasonal branch binds a label instead of failing.
av_label_seasonal_as_given(intvl_type, intvl) ==
    IF intvl_type \in {<<"a", "n", "n", "u", "a", "l">>, <<"a", "n", "n">>}
    THEN {Return("ann")}
    ELSE IF intvl_type \in {<<"s", "e", "a", "s", "o", "n", "a", "l">>,
                            <<"s", "e", "a", "s">>}
    THEN {Return(StrOf(intvl_type))}
    ELSE IF intvl_type \in {<<"m", "o", "n", "t", "h", "l", "y">>,
                            <<"m", "o", "n">>}
    THEN {IF r.kind = "return" THEN Return(r.val.label) ELSE r :
             r \in time_label(intvl, TRUE)}
    ELSE {Raise("UnboundLocalError")}

\* The av branch's `label`: 'ann', or the label of _time_label(intvl), or
\* the exception of the first use of the unbound `label` (label.upper() in
\* the seasonal branch, the concatenation otherwise) or of _time_label.
av_label(intvl_type, intvl) ==
    IF intvl_type \in {<<"a", "n", "n", "u", "a", "l">>, <<"a", "n", "n">>}
    THEN {Return("ann")}
    ELSE IF intvl_type \in {<<"s", "e", "a", "s", "o", "n", "a", "l">>,
                            <<"s", "e", "a", "s">>}
    THEN {Raise("UnboundLocalError")}
    ELSE IF intvl_type \in {<<"m", "o", "n", "t", "h", "l", "y">>,
                            <<"m", "o", "n">>}
    THEN {IF r.kind = "return" THEN Return(r.val.label) ELSE r :
             r \in time_label(intvl, TRUE)}
    ELSE {Raise("UnboundLocalError")}

av_file(domain, yr, nc_dur, label) ==
    IF nc_dur = 1
    THEN domain \o "." \o ZeroPad(yr, 4) \o "." \o label \o ".nc"
    ELSE domain \o "." \o ZeroPad(yr, 4) \o "-" \o ZeroPad(yr + nc_dur - 1, 4)
         \o "." \o label \o ".nc"

\* Variant: a single-year file drops the range, as the av branch does.
av_ts_file_single_year_collapsed(domain, yr, nc_dur) ==
    IF nc_dur = 1
    THEN domain \o "." \o ZeroPad(yr, 4) \o ".01-12.nc"
    ELSE domain \o "." \o ZeroPad(yr, 4) \o "-" \o ZeroPad(yr + nc_dur - 1, 4)
         \o ".01-12.nc"

av_ts_file(domain, yr, nc_dur) ==
    domain \o "." \o ZeroPad(yr, 4) \o "-" \o ZeroPad(yr + nc_dur - 1, 4)
    \o ".01-12.nc"

\* The outcomes of nc_name_gfdl: the returned gfdl_file, or the exception of
\* the first use of a variable no branch has bound.
nc_name_gfdl(name, domain, data_type, intvl_type, data_yr, intvl, nc_start_yr, nc_dur) ==
    LET yr == nc_yr(data_yr, nc_start_yr, nc_dur)
        ts == ts_file(name, domain, intvl_type.s, yr, nc_dur)
    IN IF data_type \in {"ts", "inst"}
       THEN {IF ts.bound THEN Return(ts.v) ELSE Raise("UnboundLocalError")}
       ELSE IF data_type = "av"
       THEN {IF lb.kind = "return"
             THEN Return(av_file(domain, yr, nc_dur, lb.val)) ELSE lb :
                lb \in av_label(intvl_type.s, intvl)}
       ELSE IF data_type = "av_ts"
       THEN {Return(av_ts_file(domain, yr, nc_dur))}
       ELSE {Raise("UnboundLocalError")}

(***************************************************************************)
(* The file namer: arguments and calls.                                    *)
(***************************************************************************)
MaxDataYr == 5
MaxDur == 5

IntvlTypeArgs ==
    {PyStr(<<"a", "n", "n", "u", "a", "l">>), PyStr(<<"a", "n", "n">>),
     PyStr(<<"m", "o", "n", "t", "h", "l", "y">>), PyStr(<<"m", "o", "n">>),
     PyStr(<<"d", "a", "i", "l", "y">>), PyStr(<<"3", "h", "r">>),
     PyStr(<<"6", "h", "r">>), PyStr(<<"h", "o", "u", "r", "l", "y">>),
     PyStr(<<"s", "e", "a", "s", "o", "n", "a", "l">>),
     PyStr(<<"s", "e", "a", "s">>), PyStr(<<"w", "e", "e", "k", "l", "y">>)}

NcNameArgs ==
    [name : {"temp", "olr"},
     domain : {"atmos"},
     data_type : {"ts", "inst", "av", "av_ts", "clim"},
     intvl_type : IntvlTypeArgs,
     data_yr : (0..MaxDataYr) \cup {21, 1981, 9999},
     intvl : {PyInt(1), PyInt(13), PyList(<<7>>), PyList(<<12, 1, 2>>),
              PyStr(<<"j", "j", "a", "s">>), PyStr(<<"a", "n", "n">>)},
     nc_start_yr : {1, 3, 1979},
     nc_dur : (1..MaxDur) \cup {17}]

InitNcName ==
    /\ op = "nc_name_gfdl"
    /\ args \in NcNameArgs
    /\ ret = Pending
    /\ locals = NoLocals

Call_nc_name_gfdl ==
    /\ op = "nc_name_gfdl"
    /\ ret = Pending
    /\ ret' \in nc_name_gfdl(args.name, args.domain, args.data_type,
                             args.intvl_type, args.data_yr, args.intvl,
                             args.nc_start_yr, args.nc_dur)
    /\ locals' = [extra_yrs |-> extra_yrs(args.data_yr, args.nc_start_yr,
                                          args.nc_dur),
                  nc_yr |-> nc_yr(args.data_yr, args.nc_start_yr, args.nc_dur)]
    /\ UNCHANGED <<op, args>>

NextNcName == Call_nc_name_gfdl

SpecNcName == InitNcName /\ [][NextNcName]_vars

\* C1 as stated: for every data_year, archive_start_year and
\* duration_years > 0, file_start_year lies in
\* archive_start_year..data_year, is less than duration_years before
\* data_year, and is a whole number of durations after archive_start_year,
\* also when data_year is smaller than archive_start_year.
C1_BucketingAsStated ==
    (op = "nc_name_gfdl" /\ ret # Pending) =>
        /\ args.nc_start_yr <= locals.nc_yr
        /\ locals.nc_yr <= args.data_yr
        /\ args.data_yr - locals.nc_yr < args.nc_dur
        /\ (locals.nc_yr - args.nc_start_yr) % args.nc_dur = 0

\* C1 amended: file_start_year <= data_year, data_year - file_start_year <
\* duration_years and (file_start_year - archive_start_year) mod
\* duration_years = 0 hold for every input; archive_start_year <=
\* file_start_year holds when data_year >= archive_start_year, and fails
\* when data_year < archive_start_year.
C1_Bucketing ==
    (op = "nc_name_gfdl" /\ ret # Pending) =>
        /\ locals.nc_yr <= args.data_yr
        /\ args.data_yr - locals.nc_yr < args.nc_dur
        /\ (locals.nc_yr - args.nc_start_yr) % args.nc_dur = 0
        /\ (args.nc_start_yr <= locals.nc_yr) <=>
               (args.nc_start_yr <= args.data_yr)

\* Witness of C1: a year before the archive's start was bucketed, into a
\* block that starts before it.
C1_Witness ==
    /\ op = "nc_name_gfdl"
    /\ ret # Pending
    /\ args.data_yr < args.nc_start_yr
    /\ locals.extra_yrs > 0
    /\ locals.nc_yr < args.data_yr

\* The reference table of C2 for the block of the call's data year.
FileStartYear ==
    args.data_yr - ((args.data_yr - args.nc_start_yr) % args.nc_dur)

StampS == FourDigit(FileStartYear)
StampE == FourDigit(FileStartYear + args.nc_dur - 1)

\* The label of an interval of the vocabulary (none outside it).
IntervalLabels(intvl) ==
    (IF intvl.t = "int" /\ intvl.n \in 1..12
     THEN {TwoDigit(intvl.n)} ELSE {})
    \cup (IF intvl.t = "list" /\ Len(intvl.l) = 1 /\ intvl.l[1] \in 1..12
          THEN {TwoDigit(intvl.l[1])} ELSE {})
    \cup {StrOf(labels[k].lbl) : k \in {j \in DOMAIN labels :
             \/ intvl.t = "str" /\ intvl.s = labels[j].lbl
             \/ intvl.t = "list"
                /\ SetOfSeq(intvl.l) = SetOfSeq(labels[j].vals)}}

\* C2: for every supported (representation, granularity) nc_name_gfdl
\* returns the name of the reference table, the stamp spanning
\* file_start_year (S) to file_start_year + duration_years - 1 (E):
\* ts/inst annual 'D.S.V.nc' for duration 1, else 'D.S-E.V.nc'; monthly
\* 'D.S01-E12.V.nc'; daily 'D.S0101-E1231.V.nc'; sub-daily
\* 'D.S010100-E123123.V.nc'; av 'D.S.L.nc' for duration 1, else
\* 'D.S-E.L.nc'; av_ts 'D.S-E.01-12.nc' for every duration, interval,
\* granularity and variable.  Years are those written with four digits or
\* more, file_start_year >= 0.
C2_NameTable ==
    (op = "nc_name_gfdl" /\ ret # Pending /\ FileStartYear >= 0) =>
        LET D == args.domain
            V == args.name
            S == StampS
            E == StampE
            g == StrOf(args.intvl_type.s)
            series == args.data_type \in {"ts", "inst"}
            AvName(L) == IF args.nc_dur = 1
                         THEN D \o "." \o S \o "." \o L \o ".nc"
                         ELSE D \o "." \o S \o "-" \o E \o "." \o L \o ".nc"
        IN /\ (series /\ g = "annual") =>
                 ret = Return(IF args.nc_dur = 1
                              THEN D \o "." \o S \o "." \o V \o ".nc"
                              ELSE D \o "." \o S \o "-" \o E \o "." \o V \o ".nc")
           /\ (series /\ g = "monthly") =>
                 ret = Return(D \o "." \o S \o "01-" \o E \o "12." \o V \o ".nc")
           /\ (series /\ g = "daily") =>
                 ret = Return(D \o "." \o S \o "0101-" \o E \o "1231." \o V
                              \o ".nc")
           /\ (series /\ g \in {"3hr", "6hr"}) =>
                 ret = Return(D \o "." \o S \o "010100-" \o E \o "123123." \o V
                              \o ".nc")
           /\ (args.data_type = "av" /\ g \in {"annual", "ann"}) =>
                 ret = Return(AvName("ann"))
           /\ (args.data_type = "av" /\ g \in {"monthly", "mon"}) =>
                 \A L \in IntervalLabels(args.intvl) : ret = Return(AvName(L))
           /\ args.data_type = "av_ts" =>
                 ret = Return(D \o "." \o S \o "-" \o E \o ".01-12.nc")
           /\ (D = "atmos" /\ series /\ g = "annual" /\ args.nc_dur = 5
               /\ args.nc_start_yr = 1 /\ args.data_yr = 21) =>
                 ret = Return("atmos.0021-0025." \o V \o ".nc")

\* Witness of C2: a single-year av_ts file was named with the range form.
C2_Witness ==
    /\ op = "nc_name_gfdl"
    /\ args.data_type = "av_ts"
    /\ args.nc_dur = 1
    /\ args.data_yr = 1981
    /\ args.nc_start_yr = 1979
    /\ ret = Return("atmos.1981-1981.01-12.nc")

\* The inputs no naming rule covers.
Uncovered ==
    LET g == StrOf(args.intvl_type.s)
    IN \/ args.data_type \notin {"ts", "inst", "av", "av_ts"}
       \/ /\ args.data_type \in {"ts", "inst"}
          /\ g \notin {"annual", "monthly", "daily", "3hr", "6hr"}
       \/ /\ args.data_type = "av"
          /\ g \notin {"annual", "ann", "monthly", "mon"}

\* C3: nc_name_gfdl returns no file name for an input that no naming rule
\* covers (a representation other than ts, inst, av, av_ts; ts/inst with a
\* granularity other than annual, monthly, daily, sub-daily; av with a
\* granularity other than annual or monthly, seasonal included): the call
\* ends in an error.
C3_NoFallbackName ==
    (op = "nc_name_gfdl" /\ ret # Pending /\ Uncovered) => ret.kind = "raise"

\* Witness of C3: an av call with the seasonal granularity ended in an
\* error.
C3_Witness ==
    /\ op = "nc_name_gfdl"
    /\ args.data_type = "av"
    /\ args.intvl_type = PyStr(<<"s", "e", "a", "s", "o", "n", "a", "l">>)
    /\ ret = Raise("UnboundLocalError")

(***************************************************************************)
(* _get_time(time, units, calendar, start_yr, end_yr, months, indices)     *)
(***************************************************************************)
\* netCDF4.num2date for units 'days since 0001-01-01 00:00:00' and the
\* calendar '360_day': twelve months of thirty days.
num2date(t) == [year |-> 1 + (t \div 360), month |-> ((t % 360) \div 30) + 1]

\* Variant: the end year is excluded, range(start_yr, end_yr).
RECURSIVE get_time_inds_end_exclusive(_, _, _, _, _)
get_time_inds_end_exclusive(time, i, start_yr, end_yr, months) ==
    IF i > Len(time) THEN <<>>
    ELSE (IF /\ num2date(time[i]).month \in SetOfSeq(months)
             /\ num2date(time[i]).year \in start_yr..(end_yr - 1)
          THEN <<i - 1>> ELSE <<>>)
         \o get_time_inds_end_exclusive(time, i + 1, start_yr, end_yr, months)

\* The list comprehension `inds`, from the axis's i-th value on: the
\* zero-based positions, in axis order, whose date has its month in months
\* and its year in range(start_yr, end_yr+1).
RECURSIVE get_time_inds(_, _, _, _, _)
get_time_inds(time, i, start_yr, end_yr, months) ==
    IF i > Len(time) THEN <<>>
    ELSE (IF /\ num2date(time[i]).month \in SetOfSeq(months)
             /\ num2date(time[i]).year \in start_yr..end_yr
          THEN <<i - 1>> ELSE <<>>)
         \o get_time_inds(time, i + 1, start_yr, end_yr, months)

\* time[inds]
TakeAt(time, inds) == [j \in DOMAIN inds |-> time[inds[j] + 1]]

\* indices is 'only', True or False.
get_time(time, start_yr, end_yr, months, indices) ==
    LET inds == get_time_inds(time, 1, start_yr, end_yr, months)
    IN IF indices = "only" THEN Return(inds)
       ELSE IF indices = "True"
       THEN Return([inds |-> inds, values |-> TakeAt(time, inds)])
       ELSE Return(TakeAt(time, inds))

(***************************************************************************)
(* The time selector: arguments and calls.                                 *)
(***************************************************************************)
MaxAxisLen == 3
MaxTick == 4
MaxGetYr == 2

\* Axis values: every 150th day from day 0 on.
TimeVals == {150 * k : k \in 0..MaxTick}

GetTimeArgs ==
    [time : Seqs(TimeVals, MaxAxisLen),
     units : {"days since 0001-01-01 00:00:00"},
     calendar : {"360_day"},
     start_yr : 1..MaxGetYr,
     end_yr : 1..MaxGetYr,
     months : {<<>>, <<1>>, <<11, 6>>, <<4, 5, 6>>, PyRange(1, 13)},
     indices : {"False", "True", "only"}]

InitGetTime ==
    /\ op = "_get_time"
    /\ args \in GetTimeArgs
    /\ ret = Pending
    /\ locals = NoLocals

Call_get_time ==
    /\ op = "_get_time"
    /\ ret = Pending
    /\ ret' = get_time(args.time, args.start_yr, args.end_yr, args.months,
                       args.indices)
    /\ UNCHANGED <<op, args, locals>>

NextGetTime == Call_get_time

SpecGetTime == InitGetTime /\ [][NextGetTime]_vars

\* The zero-based positions of the axis whose year lies in
\* start_yr..end_yr and whose month lies in months.
Selected ==
    {i \in 0..(Len(args.time) - 1) :
        /\ num2date(args.time[i + 1]).year >= args.start_yr
        /\ num2date(args.time[i + 1]).year <= args.end_yr
        /\ \E j \in DOMAIN args.months :
              args.months[j] = num2date(args.time[i + 1]).month}

\* inds holds exactly the selected positions, in axis order.
IsSelection(inds) ==
    /\ SetOfSeq(inds) = Selected
    /\ \A j, k \in DOMAIN inds : j < k => inds[j] < inds[k]

\* vals holds the axis values at the selected positions, in axis order.
IsSelectedValues(vals) ==
    \E inds \in [DOMAIN vals -> Selected] :
        /\ IsSelection(inds)
        /\ \A j \in DOMAIN vals : vals[j] = args.time[inds[j] + 1]

\* C9 (the result): _get_time selects position i if and only if the year of
\* timestamp i lies in start_yr..end_yr and its month in months; positions
\* come in axis order, the values returned are the axis values at those
\* positions, and a selection of nothing (start_yr > end_yr and an empty
\* month subset included) is an empty result, not an error.
C9_Result ==
    (op = "_get_time" /\ ret # Pending) =>
        /\ ret.kind = "return"
        /\ args.indices = "only" => IsSelection(ret.val)
        /\ args.indices = "True" =>
              /\ IsSelection(ret.val.inds)
              /\ ret.val.values = TakeAt(args.time, ret.val.inds)
        /\ args.indices = "False" => IsSelectedValues(ret.val)
        /\ Selected = {} =>
              ret = (IF args.indices = "True"
                     THEN Return([inds |-> <<>>, values |-> <<>>])
                     ELSE Return(<<>>))

\* C9: the result is as above in every state, and no step changes the axis.
C9_GetTimeSelects == [](C9_Result) /\ [][args'.time = args.time]_vars

\* Witness of C9: of an axis of three timestamps the first and the last
\* were selected and the one between them was not.
C9_Witness ==
    /\ op = "_get_time"
    /\ args.indices = "True"
    /\ Len(args.time) = 3
    /\ ret.kind = "return"
    /\ ret.val.inds = <<0, 2>>

====
